---- MODULE Spec2Model ----
(***************************************************************************)
(* Model of build_webcontent.py: the generator of WebContent.h.            *)
(* Texts are sequences of one-character strings.  The three text           *)
(* transforms (escape_for_c, minify_js, minify_css) are operators computed *)
(* the way the code computes them; main() is a state machine over the      *)
(* three input files, the destination file and the console.                *)
(***************************************************************************)
EXTENDS Naturals, Integers, Sequences, FiniteSets, TLC

VARIABLES
    pc,          \* position of main(): the statement about to run
    srcHtml,     \* content of data/index.html
    srcCss,      \* content of data/style.css
    srcJs,       \* content of data/app.js
    html,        \* local html of main()
    css,         \* local css of main()
    js,          \* local js of main()
    escaped,     \* local escaped of main()
    destExists,  \* WebContent.h exists on disk
    dest,        \* content of WebContent.h on disk
    before,      \* what WebContent.h was before the run: [exists, text]
    buf,         \* text written to the file object f and not yet on disk
    nwritten,    \* number of f.write calls of main() that returned
    console,     \* lines printed so far
    err,         \* how the run ended early: [type, at], the exception (or
                 \* "killed") and the statement it happened at; "none" if not
    content,     \* argument of a direct call of one of the three transforms
    result,      \* value returned by that call
    called       \* which transform was called, "none" before the call

vars == <<pc, srcHtml, srcCss, srcJs, html, css, js, escaped, destExists,
          dest, before, buf, nwritten, console, err, content, result, called>>

mainVars == <<pc, srcHtml, srcCss, srcJs, html, css, js, escaped, destExists,
              dest, before, buf, nwritten, console, err>>

\* ------------------------------------------------------------------ bounds
MaxEscLen == 4
MaxJsLen == 5
MaxCssLen == 5
MaxCommentLen == 8
MaxPieces == 3

\* ------------------------------------------------------------ text helpers
\* All texts over the alphabet A of length at most n.
RECURSIVE TextsUpTo(_, _)
TextsUpTo(A, n) ==
    IF n = 0 THEN {<<>>}
    ELSE LET shorter == TextsUpTo(A, n - 1)
         IN  shorter \cup {Append(t, c) : t \in {u \in shorter : Len(u) = n - 1}, c \in A}

\* Characters for which str.isspace() holds and the pattern \s matches.
Whitespace == {" ", "\t", "\n", "\r", "\f"}

IsSpace(c) == c \in Whitespace

\* ---------------------------------------------------------- escape_for_c
EscapeCharKeepsQuote(char) ==
    IF char = "\\" THEN <<"\\", "\\">>
    ELSE IF char = "\n" THEN <<"\\", "n">>
    ELSE IF char = "\r" THEN <<>>
    ELSE IF char = "\t" THEN <<"\\", "t">>
    ELSE <<char>>

EscapeCharKeepsBackslash(char) ==
    IF char = "\"" THEN <<"\\", "\"">>
    ELSE IF char = "\n" THEN <<"\\", "n">>
    ELSE IF char = "\r" THEN <<>>
    ELSE IF char = "\t" THEN <<"\\", "t">>
    ELSE <<char>>

EscapeCharCrAsNewline(char) ==
    IF char = "\\" THEN <<"\\", "\\">>
    ELSE IF char = "\"" THEN <<"\\", "\"">>
    ELSE IF char = "\n" THEN <<"\\", "n">>
    ELSE IF char = "\r" THEN <<"\\", "n">>
    ELSE IF char = "\t" THEN <<"\\", "t">>
    ELSE <<char>>

\* One iteration of the loop: what is appended to result for char.
EscapeChar(char) ==
    IF char = "\\" THEN <<"\\", "\\">>
    ELSE IF char = "\"" THEN <<"\\", "\"">>
    ELSE IF char = "\n" THEN <<"\\", "n">>
    ELSE IF char = "\r" THEN <<>>
    ELSE IF char = "\t" THEN <<"\\", "t">>
    ELSE <<char>>

\* What the loop appends to result for the characters lo..hi of text, in
\* order (the range is halved to keep the evaluation shallow).
RECURSIVE EscapeRange(_, _, _)
EscapeRange(text, lo, hi) ==
    IF lo > hi THEN <<>>
    ELSE IF lo = hi THEN EscapeChar(text[lo])
    ELSE LET mid == (lo + hi) \div 2
         IN  EscapeRange(text, lo, mid) \o EscapeRange(text, mid + 1, hi)

escape_for_c(text) == EscapeRange(text, 1, Len(text))

\* -------------------------------------------------------------- minify_js
\* str.split('\n'): the pieces between newlines, at least one piece.
RECURSIVE split(_, _)
split(text, sep) ==
    IF \A i \in 1..Len(text) : text[i] # sep THEN <<text>>
    ELSE LET i == CHOOSE k \in 1..Len(text) :
                      text[k] = sep /\ \A m \in 1..(k - 1) : text[m] # sep
         IN  <<SubSeq(text, 1, i - 1)>> \o split(SubSeq(text, i + 1, Len(text)), sep)

RECURSIVE lstrip(_)
lstrip(text) ==
    IF text # <<>> /\ IsSpace(Head(text)) THEN lstrip(Tail(text)) ELSE text

RECURSIVE rstrip(_)
rstrip(text) ==
    IF text # <<>> /\ IsSpace(text[Len(text)])
    THEN rstrip(SubSeq(text, 1, Len(text) - 1)) ELSE text

\* str.strip()
strip(text) == rstrip(lstrip(text))

\* sep.join(lines)
RECURSIVE join(_, _)
join(sep, lines) ==
    IF lines = <<>> THEN <<>>
    ELSE IF Len(lines) = 1 THEN lines[1]
    ELSE lines[1] \o <<sep>> \o join(sep, Tail(lines))

\* The loop of minify_js: the stripped lines that are not empty, in order.
RECURSIVE StrippedLines(_)
StrippedLines(lines) ==
    IF lines = <<>> THEN <<>>
    ELSE LET stripped == strip(Head(lines))
         IN  (IF stripped # <<>> THEN <<stripped>> ELSE <<>>)
             \o StrippedLines(Tail(lines))

minify_js_joined_by_space(text) == join(" ", StrippedLines(split(text, "\n")))

minify_js(text) == join("\n", StrippedLines(split(text, "\n")))

\* ------------------------------------------------------------- minify_css
SpecialChars == {"{", "}", ":", ";", ","}

\* Index of the first "*/" that starts at or after position i, 0 if none.
CommentEnd(text, i) ==
    LET ends == {j \in i..(Len(text) - 1) : text[j] = "*" /\ text[j + 1] = "/"}
    IN  IF ends = {} THEN 0 ELSE CHOOSE j \in ends : \A k \in ends : j <= k

\* re.sub(r'/\*.*?\*/', '', text, flags=re.DOTALL): one scan, left to right.
RECURSIVE RemoveComments(_)
RemoveComments(text) ==
    IF text = <<>> THEN <<>>
    ELSE IF Len(text) >= 2 /\ text[1] = "/" /\ text[2] = "*" /\ CommentEnd(text, 3) # 0
    THEN RemoveComments(SubSeq(text, CommentEnd(text, 3) + 2, Len(text)))
    ELSE <<Head(text)>> \o RemoveComments(Tail(text))

\* re.sub(r'\s+', ' ', text)
RECURSIVE CollapseWhitespace(_)
CollapseWhitespace(text) ==
    IF text = <<>> THEN <<>>
    ELSE IF IsSpace(Head(text)) THEN <<" ">> \o CollapseWhitespace(lstrip(text))
    ELSE <<Head(text)>> \o CollapseWhitespace(Tail(text))

\* re.sub(r'\s*([{}:;,])\s*', r'\1', text)
RECURSIVE RemoveSpacesAroundSpecial(_)
RemoveSpacesAroundSpecial(text) ==
    IF text = <<>> THEN <<>>
    ELSE LET rest == lstrip(text)
         IN  IF rest # <<>> /\ Head(rest) \in SpecialChars
             THEN <<Head(rest)>> \o RemoveSpacesAroundSpecial(lstrip(Tail(rest)))
             ELSE <<Head(text)>> \o RemoveSpacesAroundSpecial(Tail(text))

minify_css_keeps_spaces(text) ==
    strip(CollapseWhitespace(RemoveComments(text)))

minify_css(text) ==
    strip(RemoveSpacesAroundSpecial(CollapseWhitespace(RemoveComments(text))))

\* ------------------------------------------------------------ str.replace
\* str.find(old): index of the leftmost occurrence of old in text, 0 if none.
find(text, old) ==
    LET occ == {i \in 1..(Len(text) - Len(old) + 1) :
                    SubSeq(text, i, i + Len(old) - 1) = old}
    IN  IF occ = {} THEN 0 ELSE CHOOSE i \in occ : \A j \in occ : i <= j

\* str.replace(old, new, 1): only the leftmost occurrence is replaced.
replace_first_only(text, old, new) ==
    IF find(text, old) = 0 THEN text
    ELSE SubSeq(text, 1, find(text, old) - 1) \o new
         \o SubSeq(text, find(text, old) + Len(old), Len(text))

\* str.replace(old, new) for a non-empty old: every occurrence, found left
\* to right after the end of the previous one; new text is not scanned again.
RECURSIVE replace(_, _, _)
replace(text, old, new) ==
    IF find(text, old) = 0 THEN text
    ELSE SubSeq(text, 1, find(text, old) - 1) \o new
         \o replace(SubSeq(text, find(text, old) + Len(old), Len(text)), old, new)

LinkTag == <<"<", "l", "i", "n", "k", " ", "r", "e", "l", "=", "\"", "s", "t", "y", "l", "e", "s", "h", "e", "e", "t", "\"", " ", "h", "r", "e", "f", "=", "\"", "s", "t", "y", "l", "e", ".", "c", "s", "s", "\"", ">">>

ScriptTag == <<"<", "s", "c", "r", "i", "p", "t", " ", "s", "r", "c", "=", "\"", "a", "p", "p", ".", "j", "s", "\"", ">", "<", "/", "s", "c", "r", "i", "p", "t", ">">>

\* f'<style>{css}</style>'
StyleElement(c) == <<"<", "s", "t", "y", "l", "e", ">">> \o c \o <<"<", "/", "s", "t", "y", "l", "e", ">">>

\* f'<script>{js}</script>'
ScriptElement(j) == <<"<", "s", "c", "r", "i", "p", "t", ">">> \o j \o <<"<", "/", "s", "c", "r", "i", "p", "t", ">">>

\* ------------------------------------------------------------ the header
\* The argument of the k-th f.write call; each fixed text is one unit.
WriteArg(k, lit) ==
    CASE k = 1 -> <<"#ifndef WEB_CONTENT_H\n">>
      [] k = 2 -> <<"#define WEB_CONTENT_H\n\n">>
      [] k = 3 -> <<"#include <pgmspace.h>\n\n">>
      [] k = 4 -> <<"const char INDEX_HTML[] PROGMEM = \"">>
      [] k = 5 -> lit
      [] k = 6 -> <<"\";\n\n">>
      [] k = 7 -> <<"#endif\n">>

NumWrites == 7

\* --------------------------------------------------------------- main()
ReadErrors == {"FileNotFoundError", "PermissionError", "UnicodeDecodeError"}

Terminal == {"done", "error", "crashed", "import"}

RECURSIVE Concat(_)
Concat(pieces) ==
    IF pieces = <<>> THEN <<>> ELSE Head(pieces) \o Concat(Tail(pieces))

\* Markup files: up to MaxPieces pieces, each a tag or ordinary text.
Pieces == {LinkTag, ScriptTag, <<"a">>}

Markups == {Concat(ps) : ps \in TextsUpTo(Pieces, MaxPieces)}

Stylesheets == {<<>>, <<"a", " ", "{", " ", "}">>, ScriptTag, LinkTag}

Scripts == {<<"b">>, <<" ", "b", "\n", "\n", "c", "\"">>}

OldHeaders == {[exists |-> FALSE, text |-> <<>>],
               [exists |-> TRUE, text |-> <<"stale">>]}

NoError == [type |-> "none", at |-> "none"]

NoCall == content = <<>> /\ result = <<>> /\ called = "none"

Init ==
    /\ pc = "read_html"
    /\ srcHtml \in Markups
    /\ srcCss \in Stylesheets
    /\ srcJs \in Scripts
    /\ html = <<>> /\ css = <<>> /\ js = <<>> /\ escaped = <<>>
    /\ before \in OldHeaders
    /\ destExists = before.exists
    /\ dest = before.text
    /\ buf = <<>>
    /\ nwritten = 0
    /\ console = <<>>
    /\ err = NoError
    /\ NoCall

\* The exception leaves main(): nothing catches it.
Raise(e) == pc' = "error" /\ err' = [type |-> e, at |-> pc]

\* with open('data/index.html', 'r', encoding='utf-8') as f: html = f.read()
ReadHtml ==
    /\ pc = "read_html"
    /\ \/ /\ html' = srcHtml
          /\ pc' = "read_css"
          /\ err' = err
       \/ /\ \E e \in ReadErrors : Raise(e)
          /\ html' = html
    /\ UNCHANGED <<srcHtml, srcCss, srcJs, css, js, escaped, destExists, dest,
                   before, buf, nwritten, console, content, result, called>>

\* with open('data/style.css', ...) as f: css = minify_css(f.read())
ReadCss ==
    /\ pc = "read_css"
    /\ \/ /\ css' = minify_css(srcCss)
          /\ pc' = "read_js"
          /\ err' = err
       \/ /\ \E e \in ReadErrors : Raise(e)
          /\ css' = css
    /\ UNCHANGED <<srcHtml, srcCss, srcJs, html, js, escaped, destExists, dest,
                   before, buf, nwritten, console, content, result, called>>

ReadJsTruncatingOnError ==
    /\ pc = "read_js"
    /\ \/ /\ js' = minify_js(srcJs)
          /\ pc' = "inject_css"
          /\ err' = err
          /\ UNCHANGED <<destExists, dest>>
       \/ /\ \E e \in ReadErrors : Raise(e)
          /\ js' = js
          /\ destExists' = TRUE
          /\ dest' = <<>>
    /\ UNCHANGED <<srcHtml, srcCss, srcJs, html, css, escaped,
                   before, buf, nwritten, console, content, result, called>>

\* with open('data/app.js', ...) as f: js = minify_js(f.read())
ReadJs ==
    /\ pc = "read_js"
    /\ \/ /\ js' = minify_js(srcJs)
          /\ pc' = "inject_css"
          /\ err' = err
       \/ /\ \E e \in ReadErrors : Raise(e)
          /\ js' = js
    /\ UNCHANGED <<srcHtml, srcCss, srcJs, html, css, escaped, destExists, dest,
                   before, buf, nwritten, console, content, result, called>>

\* html = html.replace('<link rel="stylesheet" href="style.css">', f'<style>{css}</style>')
InjectCss ==
    /\ pc = "inject_css"
    /\ html' = replace(html, LinkTag, StyleElement(css))
    /\ pc' = "inject_js"
    /\ UNCHANGED <<srcHtml, srcCss, srcJs, css, js, escaped, destExists, dest,
                   before, buf, nwritten, console, err, content, result, called>>

\* html = html.replace('<script src="app.js"></script>', f'<script>{js}</script>')
InjectJs ==
    /\ pc = "inject_js"
    /\ html' = replace(html, ScriptTag, ScriptElement(js))
    /\ pc' = "escape"
    /\ UNCHANGED <<srcHtml, srcCss, srcJs, css, js, escaped, destExists, dest,
                   before, buf, nwritten, console, err, content, result, called>>

\* escaped = escape_for_c(html)
Escape ==
    /\ pc = "escape"
    /\ escaped' = escape_for_c(html)
    /\ pc' = "open"
    /\ UNCHANGED <<srcHtml, srcCss, srcJs, html, css, js, destExists, dest,
                   before, buf, nwritten, console, err, content, result, called>>

OpenForAppend ==
    /\ pc = "open"
    /\ \/ /\ destExists' = TRUE
          /\ dest' = dest
          /\ pc' = "write"
          /\ err' = err
       \/ /\ Raise("PermissionError")
          /\ UNCHANGED <<destExists, dest>>
    /\ UNCHANGED <<srcHtml, srcCss, srcJs, html, css, js, escaped,
                   before, buf, nwritten, console, content, result, called>>

\* open('WebContent.h', 'w', encoding='utf-8'): creates or truncates the
\* file, or fails and leaves it alone.
Open ==
    /\ pc = "open"
    /\ \/ /\ destExists' = TRUE
          /\ dest' = <<>>
          /\ pc' = "write"
          /\ err' = err
       \/ /\ Raise("PermissionError")
          /\ UNCHANGED <<destExists, dest>>
    /\ UNCHANGED <<srcHtml, srcCss, srcJs, html, css, js, escaped,
                   before, buf, nwritten, console, content, result, called>>

\* The next f.write(...) of the with block: the text goes to the buffer of f.
Write ==
    /\ pc = "write"
    /\ nwritten < NumWrites
    /\ buf' = buf \o WriteArg(nwritten + 1, escaped)
    /\ nwritten' = nwritten + 1
    /\ UNCHANGED <<pc, srcHtml, srcCss, srcJs, html, css, js, escaped, destExists,
                   dest, before, console, err, content, result, called>>

\* The buffer of f is written out to the file while the block runs.
Flush ==
    /\ pc = "write"
    /\ buf # <<>>
    /\ dest' = dest \o buf
    /\ buf' = <<>>
    /\ UNCHANGED <<pc, srcHtml, srcCss, srcJs, html, css, js, escaped, destExists,
                   before, nwritten, console, err, content, result, called>>

\* A write to the file fails (disk full, I/O error): the exception leaves
\* the with block and main(); what was not written out is lost.
WriteFailure ==
    /\ pc = "write"
    /\ Raise("OSError")
    /\ buf' = <<>>
    /\ UNCHANGED <<srcHtml, srcCss, srcJs, html, css, js, escaped, destExists,
                   dest, before, nwritten, console, content, result, called>>

\* End of the with block: f is closed, the buffer is written out.
Close ==
    /\ pc = "write"
    /\ nwritten = NumWrites
    /\ dest' = dest \o buf
    /\ buf' = <<>>
    /\ pc' = "print1"
    /\ UNCHANGED <<srcHtml, srcCss, srcJs, html, css, js, escaped, destExists,
                   before, nwritten, console, err, content, result, called>>

\* print('WebContent.h regenerated successfully!')
PrintDone ==
    /\ pc = "print1"
    /\ console' = Append(console, <<"WebContent.h regenerated successfully!">>)
    /\ pc' = "print2"
    /\ UNCHANGED <<srcHtml, srcCss, srcJs, html, css, js, escaped, destExists,
                   dest, before, buf, nwritten, err, content, result, called>>

\* print(f'Total size: {len(escaped)} chars')
PrintSize ==
    /\ pc = "print2"
    /\ console' = Append(console, <<"Total size: ", Len(escaped), " chars">>)
    /\ pc' = "done"
    /\ UNCHANGED <<srcHtml, srcCss, srcJs, html, css, js, escaped, destExists,
                   dest, before, buf, nwritten, err, content, result, called>>

\* The process is killed or the machine stops: the buffer of f is lost.
Crash ==
    /\ pc \notin Terminal
    /\ pc' = "crashed"
    /\ err' = [type |-> "killed", at |-> pc]
    /\ buf' = <<>>
    /\ UNCHANGED <<srcHtml, srcCss, srcJs, html, css, js, escaped, destExists,
                   dest, before, nwritten, console, content, result, called>>

Next ==
    \/ ReadHtml
    \/ ReadCss
    \/ ReadJs
    \/ InjectCss
    \/ InjectJs
    \/ Escape
    \/ Open
    \/ Write
    \/ Flush
    \/ WriteFailure
    \/ Close
    \/ PrintDone
    \/ PrintSize
    \/ Crash

Spec == Init /\ [][Next]_vars

\* ------------------------------------------- direct calls of the transforms
\* The module is imported and main() does not run.
NotRunning ==
    /\ pc = "import"
    /\ srcHtml = <<>> /\ srcCss = <<>> /\ srcJs = <<>>
    /\ html = <<>> /\ css = <<>> /\ js = <<>> /\ escaped = <<>>
    /\ before = [exists |-> FALSE, text |-> <<>>]
    /\ destExists = FALSE
    /\ dest = <<>>
    /\ buf = <<>>
    /\ nwritten = 0
    /\ console = <<>>
    /\ err = NoError

EscAlphabet == {"\\", "\"", "\n", "\r", "\t", "n", "a"}

InitEscape ==
    /\ NotRunning
    /\ content \in TextsUpTo(EscAlphabet, MaxEscLen)
    /\ result = <<>>
    /\ called = "none"

CallEscape ==
    /\ called = "none"
    /\ result' = escape_for_c(content)
    /\ called' = "escape_for_c"
    /\ UNCHANGED <<mainVars, content>>

SpecEscape == InitEscape /\ [][CallEscape]_vars

JsAlphabet == {" ", "\t", "\r", "\n", "a"}

InitJs ==
    /\ NotRunning
    /\ content \in TextsUpTo(JsAlphabet, MaxJsLen)
    /\ result = <<>>
    /\ called = "none"

CallMinifyJs ==
    /\ called = "none"
    /\ result' = minify_js(content)
    /\ called' = "minify_js"
    /\ UNCHANGED <<mainVars, content>>

SpecJs == InitJs /\ [][CallMinifyJs]_vars

CssAlphabet == {" ", "\n", "a", "{", ";", "/"}

CommentAlphabet == {"/", "*", " "}

InitCss ==
    /\ NotRunning
    /\ content \in TextsUpTo(CssAlphabet, MaxCssLen)
                     \cup TextsUpTo(CommentAlphabet, MaxCommentLen)
    /\ result = <<>>
    /\ called = "none"

CallMinifyCss ==
    /\ called = "none"
    /\ result' = minify_css(content)
    /\ called' = "minify_css"
    /\ UNCHANGED <<mainVars, content>>

SpecCss == InitCss /\ [][CallMinifyCss]_vars

\* ================================================================ claims
\* Number of places where pat occurs in text (occurrences may overlap).
Count(text, pat) ==
    Cardinality({i \in 1..(Len(text) - Len(pat) + 1) :
                    SubSeq(text, i, i + Len(pat) - 1) = pat})

IsPrefix(p, text) == Len(p) <= Len(text) /\ SubSeq(text, 1, Len(p)) = p

Contains(text, c) == \E i \in 1..Len(text) : text[i] = c

\* ---------------------------------------------------------------- C2
\* The text without its carriage returns.
WithoutCR(text) == SelectSeq(text, LAMBDA c : c # "\r")

Decoded(c) == IF c = "n" THEN "\n" ELSE IF c = "t" THEN "\t" ELSE c

\* Decoding by the escape rules of a C string literal: ok is FALSE on an
\* unknown escape or a backslash at the very end.
RECURSIVE Unescape(_)
Unescape(lit) ==
    IF lit = <<>> THEN [ok |-> TRUE, text |-> <<>>]
    ELSE IF Head(lit) = "\\"
    THEN IF Len(lit) >= 2 /\ lit[2] \in {"\\", "\"", "n", "t"}
         THEN LET r == Unescape(SubSeq(lit, 3, Len(lit)))
              IN  [ok |-> r.ok, text |-> <<Decoded(lit[2])>> \o r.text]
         ELSE [ok |-> FALSE, text |-> <<>>]
    ELSE LET r == Unescape(Tail(lit))
         IN  [ok |-> r.ok, text |-> <<Head(lit)>> \o r.text]

\* C2: decoding the output of escape_for_c by the C escape rules succeeds
\* and gives back the input without its carriage returns.
C2_RoundTrip ==
    called = "escape_for_c" =>
        /\ Unescape(result).ok
        /\ Unescape(result).text = WithoutCR(content)

C2_Witness ==
    /\ called = "escape_for_c"
    /\ Contains(content, "\r")
    /\ Contains(content, "\\")
    /\ Contains(content, "\"")
    /\ Len(result) = 4

\* ---------------------------------------------------------------- C7
\* Length of the run of backslashes that ends just before position i.
RECURSIVE BackslashRun(_, _)
BackslashRun(text, i) ==
    IF i > 1 /\ text[i - 1] = "\\" THEN 1 + BackslashRun(text, i - 1) ELSE 0

\* Scanning from the left, text splits into plain characters and the four
\* two-character escapes.
RECURSIVE Tokenizes(_)
Tokenizes(text) ==
    IF text = <<>> THEN TRUE
    ELSE IF Head(text) = "\\"
    THEN /\ Len(text) >= 2
         /\ text[2] \in {"\\", "\"", "n", "t"}
         /\ Tokenizes(SubSeq(text, 3, Len(text)))
    ELSE /\ Head(text) \notin {"\"", "\n", "\r", "\t"}
         /\ Tokenizes(Tail(text))

\* C7: the output of escape_for_c splits into plain characters and
\* two-character escapes; every double quote follows an odd run of
\* backslashes, the output does not end inside an escape and holds no raw
\* newline, carriage return or tab.
C7_NoUnescapedHazard ==
    called = "escape_for_c" =>
        /\ Tokenizes(result)
        /\ \A i \in 1..Len(result) :
               result[i] = "\"" => BackslashRun(result, i) % 2 = 1
        /\ BackslashRun(result, Len(result) + 1) % 2 = 0
        /\ \A i \in 1..Len(result) : result[i] \notin {"\n", "\r", "\t"}

C7_Witness ==
    /\ called = "escape_for_c"
    /\ Contains(content, "\"")
    /\ Contains(content, "\\")
    /\ Contains(content, "\n")
    /\ Contains(content, "\t")
    /\ Len(result) = 8

\* ---------------------------------------------------------------- C8
\* Number of newline escapes among the tokens of text, scanned from the left.
RECURSIVE NewlineEscapes(_)
NewlineEscapes(text) ==
    IF text = <<>> THEN 0
    ELSE IF Head(text) = "\\" /\ Len(text) >= 2
    THEN (IF text[2] = "n" THEN 1 ELSE 0) + NewlineEscapes(SubSeq(text, 3, Len(text)))
    ELSE NewlineEscapes(Tail(text))

\* C8 as stated: the number of newlines of the input equals the number of
\* places of the output where a backslash is followed by the letter n.
C8_RawCount ==
    called = "escape_for_c" =>
        Count(content, <<"\n">>) = Count(result, <<"\\", "n">>)

\* C8 amended: the number of newlines of the input equals the number of
\* newline escapes among the tokens of the output, scanned from the left.
C8_TokenCount ==
    called = "escape_for_c" =>
        Count(content, <<"\n">>) = NewlineEscapes(result)

C8_Witness ==
    /\ called = "escape_for_c"
    /\ Count(content, <<"\\", "n">>) = 1
    /\ Count(content, <<"\n">>) = 2
    /\ Count(result, <<"\\", "n">>) = 3

\* ---------------------------------------------------------------- C9
\* The k-th smallest element of the set S of numbers.
Kth(S, k) == CHOOSE i \in S : Cardinality({j \in S : j <= i}) = k

\* The pieces of text between its newlines, found from the positions of
\* the newlines.
LinesOf(text) ==
    LET nl == {i \in 1..Len(text) : text[i] = "\n"}
        n == Cardinality(nl)
        first(k) == IF k = 1 THEN 1 ELSE Kth(nl, k - 1) + 1
        last(k) == IF k = n + 1 THEN Len(text) ELSE Kth(nl, k) - 1
    IN  [k \in 1..(n + 1) |-> SubSeq(text, first(k), last(k))]

\* The line without its leading and trailing whitespace.
Trimmed(line) ==
    LET ink == {i \in 1..Len(line) : line[i] \notin Whitespace}
    IN  IF ink = {} THEN <<>>
        ELSE SubSeq(line, Kth(ink, 1), Kth(ink, Cardinality(ink)))

\* The sequence L of the claim: the trimmed lines that are not empty.
TrimmedLines(text) ==
    LET lines == LinesOf(text)
        trimmed == [k \in 1..Len(lines) |-> Trimmed(lines[k])]
    IN  SelectSeq(trimmed, LAMBDA line : line # <<>>)

\* C9: the output of minify_js, split on newline, is the sequence of the
\* trimmed non-empty input lines (the empty output when there is none); no
\* output line is empty or starts or ends with whitespace, and minify_js
\* leaves its own output unchanged.
C9_LineSequence ==
    called = "minify_js" =>
        LET L == TrimmedLines(content)
        IN  /\ L = <<>> => result = <<>>
            /\ L # <<>> => LinesOf(result) = L
            /\ result # <<>> =>
                   \A k \in 1..Len(LinesOf(result)) :
                       LET line == LinesOf(result)[k]
                       IN  /\ line # <<>>
                           /\ line[1] \notin Whitespace
                           /\ line[Len(line)] \notin Whitespace
            /\ minify_js(result) = result

C9_Witness ==
    /\ called = "minify_js"
    /\ Len(LinesOf(content)) = 3
    /\ Len(TrimmedLines(content)) = 2
    /\ Len(result) = 3
    /\ Len(content) = 5

\* --------------------------------------------------------------- C10
\* The characters of text that are not whitespace, in order.
Ink(text) == SelectSeq(text, LAMBDA c : c \notin Whitespace)

\* C10: every whitespace character of the output of minify_css is a single
\* space between two characters that are neither whitespace nor one of
\* { } : ; , and the non-whitespace characters of the output are those of
\* the input after comment removal, in order.
C10_WhitespaceNormalForm ==
    called = "minify_css" =>
        /\ \A i \in 1..Len(result) :
               result[i] \in Whitespace =>
                   /\ result[i] = " "
                   /\ i > 1 /\ i < Len(result)
                   /\ result[i - 1] \notin Whitespace \cup SpecialChars
                   /\ result[i + 1] \notin Whitespace \cup SpecialChars
        /\ Ink(result) = Ink(RemoveComments(content))

C10_Witness ==
    /\ called = "minify_css"
    /\ Count(content, <<" ", "{">>) = 1
    /\ Contains(content, "\n")
    /\ Contains(result, " ")
    /\ Contains(result, "{")
    /\ Len(result) = 4

\* ---------------------------------------------------------------- C6
\* text holds a "/*" followed later, without overlap, by a "*/".
HasCommentSpan(text) ==
    \E i \in 1..Len(text), j \in 1..Len(text) :
        /\ i + 1 < j /\ j < Len(text)
        /\ text[i] = "/" /\ text[i + 1] = "*"
        /\ text[j] = "*" /\ text[j + 1] = "/"

\* C6: the output of minify_css holds no comment span.
C6_NoCommentLeft ==
    called = "minify_css" => ~HasCommentSpan(result)

\* ---------------------------------------------------------------- C1
\* text with only its leftmost occurrence of old replaced by new.
LeftmostReplaced(text, old, new) ==
    LET occ == {i \in 1..(Len(text) - Len(old) + 1) :
                    SubSeq(text, i, i + Len(old) - 1) = old}
    IN  IF occ = {} THEN text
        ELSE SubSeq(text, 1, Kth(occ, 1) - 1) \o new
             \o SubSeq(text, Kth(occ, 1) + Len(old), Len(text))

\* after is text with each of its occurrences of tag replaced by element:
\* the length changes once per occurrence, and the only occurrences of tag
\* left are those inside the copies of element.
AllReplaced(text, after, tag, element) ==
    /\ Len(after) = Len(text) + Count(text, tag) * (Len(element) - Len(tag))
    /\ Count(after, tag) = Count(text, tag) * Count(element, tag)
    /\ Count(after, element) >= Count(text, tag)

\* C1 as stated: each of the two substitutions replaces the leftmost
\* occurrence of its tag and leaves every later occurrence in place.
C1_FirstOccurrenceOnly ==
    [][/\ (pc = "inject_css" /\ pc' = "inject_js") =>
              html' = LeftmostReplaced(html, LinkTag, StyleElement(css))
       /\ (pc = "inject_js" /\ pc' = "escape") =>
              html' = LeftmostReplaced(html, ScriptTag, ScriptElement(js))]_vars

\* C1 amended: each of the two substitutions replaces every occurrence of
\* its tag by the inline element and leaves none of them in place.
C1_EveryOccurrence ==
    [][/\ (pc = "inject_css" /\ pc' = "inject_js") =>
              AllReplaced(html, html', LinkTag, StyleElement(css))
       /\ (pc = "inject_js" /\ pc' = "escape") =>
              AllReplaced(html, html', ScriptTag, ScriptElement(js))]_vars

C1_Witness ==
    /\ pc = "escape"
    /\ Count(srcHtml, LinkTag) = 2
    /\ Count(srcHtml, ScriptTag) = 0
    /\ Count(srcCss, LinkTag) = 0
    /\ Count(srcCss, ScriptTag) = 0
    /\ Count(html, LinkTag) = 0
    /\ Count(html, StyleElement(css)) = 2

\* ---------------------------------------------------------------- C3
\* WebContent.h is no longer what it was before the run.
Touched == destExists # before.exists \/ dest # before.text

ReadSteps == {"read_html", "read_css", "read_js"}

\* C3: a run ended by a failed read leaves WebContent.h as it was and
\* prints nothing; WebContent.h is touched only once the three reads, the
\* two normalizations, the assembly and the escaping are done.
C3_ReadFailureBeforeOutput ==
    /\ (err.type \in ReadErrors /\ err.at \in ReadSteps) =>
           /\ pc = "error"
           /\ ~Touched
           /\ buf = <<>> /\ nwritten = 0
           /\ console = <<>>
    /\ (Touched \/ buf # <<>> \/ nwritten > 0) =>
           /\ pc \in {"write", "print1", "print2", "done", "error", "crashed"}
           /\ err.at \in {"none", "write", "print1", "print2"}
           /\ css = minify_css(srcCss)
           /\ js = minify_js(srcJs)
           /\ escaped = escape_for_c(html)

C3_Witness ==
    /\ pc = "error"
    /\ err = [type |-> "UnicodeDecodeError", at |-> "read_js"]
    /\ destExists /\ dest = <<"stale">>
    /\ html # <<>>

\* ---------------------------------------------------------------- C4
\* The complete header for the literal lit.
GeneratedHeader(lit) ==
    <<"#ifndef WEB_CONTENT_H\n", "#define WEB_CONTENT_H\n\n",
      "#include <pgmspace.h>\n\n", "const char INDEX_HTML[] PROGMEM = \"">>
    \o lit \o <<"\";\n\n", "#endif\n">>

\* C4 as stated: whoever reads WebContent.h sees the complete previous
\* content or the complete new header.
C4_Atomic ==
    \/ ~Touched
    \/ destExists /\ dest = GeneratedHeader(escaped)

\* C4 amended: whoever reads WebContent.h sees the complete previous
\* content until the file is opened, and from then on a prefix of the new
\* header, which can be empty or cut short; the header is complete once the
\* with block is left normally.
C4_PrefixOfHeader ==
    /\ \/ ~Touched /\ pc \notin {"write", "print1", "print2", "done"}
       \/ destExists /\ IsPrefix(dest, GeneratedHeader(escaped))
    /\ pc \in {"print1", "print2", "done"} =>
           destExists /\ dest = GeneratedHeader(escaped)

C4_Witness ==
    /\ pc = "crashed"
    /\ err.at = "write"
    /\ before.exists
    /\ Len(dest) > 4
    /\ dest # GeneratedHeader(escaped)
    /\ IsPrefix(dest, GeneratedHeader(escaped))

\* ---------------------------------------------------------------- C5
\* C5: when the markup holds no script tag, the script substitution leaves
\* the document as the stylesheet substitution made it, and the literal is
\* the escape of that document.
C5_AbsentScriptTag ==
    [][Count(srcHtml, ScriptTag) = 0 =>
           /\ (pc = "inject_js" /\ pc' = "escape") => html' = html
           /\ (pc = "escape" /\ pc' = "open") =>
                  Count(html, ScriptElement(js)) = Count(srcHtml, ScriptElement(js))]_vars

====
